---- MODULE Spec2Model ----
(***************************************************************************)
(* Model of appfinal.py: a Streamlit page that reads sensor readings from  *)
(* InfluxDB, shows them, computes per-column statistics, flags readings    *)
(* outside mean +/- 2*std and extrapolates each column with a linear fit.  *)
(*                                                                         *)
(* Readings are fixed-point numbers in tenths (28 is 280, 1.2 is 12), so   *)
(* every column of the script's sample data is a column of integers.       *)
(* Means, standard deviations and fitted lines are rational or irrational; *)
(* they are never rounded here: a mean is kept as a fraction <<num, den>>, *)
(* and a comparison against mean +/- 2*std is decided exactly by comparing *)
(* squares after clearing denominators.                                    *)
(***************************************************************************)
EXTENDS Integers, Sequences, FiniteSets, TLC

\* ------------------------------------------------------------------------
\* Bounds of the model
\* ------------------------------------------------------------------------
\* longest column enumerated value by value, in every row order
MaxLen == 6
\* longest column enumerated in nondecreasing row order only
MaxSortedLen == 7
\* largest reading of an enumerated column, and the spike of a query result
MaxVal == 3
\* most rows a query result has
MaxRows == 11

\* ------------------------------------------------------------------------
\* Program constants
\* ------------------------------------------------------------------------
\* variables = ["temperatura", "humedad", "vibracion", "corriente", "voltaje"]
variables == <<"temperatura", "humedad", "vibracion", "corriente", "voltaje">>

Abs(x) == IF x < 0 THEN -x ELSE x

RECURSIVE SumTo(_, _)
\* s[1] + ... + s[k]
SumTo(s, k) == IF k = 0 THEN 0 ELSE s[k] + SumTo(s, k - 1)

\* df[var].sum(): the numerator of df[var].mean(), whose denominator is len
Total(col) == SumTo(col, Len(col))

\* media = df[var].mean(), the fraction <<sum, count>>
Media(col) == <<Total(col), Len(col)>>

\* n*n times the sum of squared deviations from the mean
SqDev(col) ==
    LET n == Len(col)
        S == Total(col)
    IN  SumTo([i \in 1..n |-> (n * col[i] - S) * (n * col[i] - S)], n)

\* the population standard deviation (ddof = 0) in the place of the sample one
StdPopulation(col) == <<SqDev(col), Len(col) * Len(col) * Len(col)>>

\* std = df[var].std(): the sample standard deviation (pandas: ddof = 1),
\* kept as its square, the fraction <<SqDev, n*n*(n-1)>>. With a single row
\* the denominator is 0: pandas returns NaN.
Std(col) == <<SqDev(col), Len(col) * Len(col) * (Len(col) - 1)>>

IsNaN(std) == std[2] = 0

\* v < media - std: one standard deviation in the place of two
BelowLimInfOneStd(v, media, std) ==
    LET n == media[2]
        d == media[1] - n * v
    IN  /\ ~IsNaN(std)
        /\ d > 0
        /\ d * d * (std[2] \div (n * n)) > std[1]

\* v < lim_inf, with lim_inf = media - 2 * std; False when std is NaN.
\* With media = S/n and std*std = Q/(n*n*(n-1)):
\*   v < S/n - 2*std  <=>  S - n*v > 0  and  (S - n*v)^2 * (n-1) > 4*Q
BelowLimInf(v, media, std) ==
    LET n == media[2]
        d == media[1] - n * v
    IN  /\ ~IsNaN(std)
        /\ d > 0
        /\ d * d * (std[2] \div (n * n)) > 4 * std[1]

\* v >= lim_sup: the limit itself counted as out of range
AboveLimSupInclusive(v, media, std) ==
    LET n == media[2]
        d == n * v - media[1]
    IN  /\ ~IsNaN(std)
        /\ d > 0
        /\ d * d * (std[2] \div (n * n)) >= 4 * std[1]

\* v > lim_sup, with lim_sup = media + 2 * std; False when std is NaN
AboveLimSup(v, media, std) ==
    LET n == media[2]
        d == n * v - media[1]
    IN  /\ ~IsNaN(std)
        /\ d > 0
        /\ d * d * (std[2] \div (n * n)) > 4 * std[1]

\* df[f"Anomalo {var}"] = (df[var] < lim_inf) | (df[var] > lim_sup)
Anomalo(col) ==
    LET media == Media(col)
        std   == Std(col)
    IN  [i \in 1..Len(col) |->
            BelowLimInf(col[i], media, std) \/ AboveLimSup(col[i], media, std)]

\* The least-squares line through (0, col[1]), ..., (n-1, col[n]) evaluated
\* at x0, as the fraction <<num, n * D>> with D = n*Sxx - Sx*Sx. With one
\* row every x is equal, the slope is 0 and the line is the constant col[1].
LineAt(col, x0) ==
    LET n   == Len(col)
        Sx  == SumTo([i \in 1..n |-> i - 1], n)
        Sxx == SumTo([i \in 1..n |-> (i - 1) * (i - 1)], n)
        Sy  == Total(col)
        Sxy == SumTo([i \in 1..n |-> (i - 1) * col[i]], n)
        D   == n * Sxx - Sx * Sx
    IN  IF n = 1 THEN <<col[1], 1>>
        ELSE <<Sy * D + (n * Sxy - Sx * Sy) * (n * x0 - Sx), n * D>>

\* modelo.fit(X, y); futuro = modelo.predict([[len(df) + 1]])[0]
Futuro(col) == LineAt(col, Len(col) + 1)

\* f"{x:.2f}" of a fraction of tenths: the number of hundredths nearest to it
Fmt2(x) == (20 * x[1] + x[2]) \div (2 * x[2])

RECURSIVE MinTo(_, _)
\* min(s[1], ..., s[k])
MinTo(s, k) ==
    IF k = 1 THEN s[1]
    ELSE LET m == MinTo(s, k - 1) IN IF s[k] < m THEN s[k] ELSE m

RECURSIVE MaxTo(_, _)
\* max(s[1], ..., s[k])
MaxTo(s, k) ==
    IF k = 1 THEN s[1]
    ELSE LET m == MaxTo(s, k - 1) IN IF s[k] > m THEN s[k] ELSE m

\* ------------------------------------------------------------------------
\* Tables (pandas DataFrame): the columns in order, each a name and values
\* ------------------------------------------------------------------------
HasCol(t, name) == \E k \in 1..Len(t) : t[k].name = name

ColIndex(t, name) == CHOOSE k \in 1..Len(t) : t[k].name = name

\* df[name]
Col(t, name) == t[ColIndex(t, name)].values

\* df[name] = vals: replaces the column of that name, or adds it at the end
SetCol(t, name, vals) ==
    IF HasCol(t, name)
    THEN [t EXCEPT ![ColIndex(t, name)].values = vals]
    ELSE Append(t, [name |-> name, values |-> vals])

\* df.rename(columns={old: new}, inplace=True)
Rename(t, old, new) ==
    [k \in 1..Len(t) |-> [t[k] EXCEPT !.name = IF @ = old THEN new ELSE @]]

\* len(df)
NRows(t) == IF Len(t) = 0 THEN 0 ELSE Len(t[1].values)

\* the column name without the variable in it
AnomaloNameFixed(var) == "Anomalo"

\* f"Anomalo {var}"
AnomaloName(var) ==
    CASE var = "temperatura" -> "Anomalo temperatura"
      [] var = "humedad"     -> "Anomalo humedad"
      [] var = "vibracion"   -> "Anomalo vibracion"
      [] var = "corriente"   -> "Anomalo corriente"
      [] var = "voltaje"     -> "Anomalo voltaje"

\* The sample data of the script, in tenths; fechas are the days 1..10 of
\* October 2025.
Fallback ==
    << [name |-> "_time",       values |-> [d \in 1..10 |-> d]],
       [name |-> "temperatura", values |->
           <<280, 290, 300, 320, 330, 310, 300, 290, 280, 270>>],
       [name |-> "humedad",     values |->
           <<550, 580, 600, 620, 590, 610, 630, 650, 600, 580>>],
       [name |-> "vibracion",   values |->
           <<12, 13, 15, 17, 18, 16, 15, 14, 13, 12>>],
       [name |-> "corriente",   values |->
           <<55, 58, 60, 62, 65, 61, 59, 58, 56, 57>>],
       [name |-> "voltaje",     values |->
           <<2300, 2310, 2290, 2280, 2320, 2330, 2300, 2290, 2310, 2300>>] >>

\* ------------------------------------------------------------------------
\* What the database can answer
\* ------------------------------------------------------------------------
NoCell == <<0, 0>>

\* A result of n rows stamped 101..100+n: every reading is MaxVal, but for
\* one reading of 2*MaxVal at cell hi and one reading of 0 at cell lo (a cell
\* is <<variable index, row>>), without the column of variable number missing.
Result(n, hi, lo, missing) ==
    LET present == SelectSeq([k \in 1..Len(variables) |-> k],
                             LAMBDA k : k # missing)
    IN  << [name |-> "_time", values |-> [r \in 1..n |-> 100 + r]] >> \o
        [j \in 1..Len(present) |->
            [name   |-> variables[present[j]],
             values |-> [r \in 1..n |->
                            IF hi = <<present[j], r>> THEN 2 * MaxVal
                            ELSE IF lo = <<present[j], r>> THEN 0
                            ELSE MaxVal]]]

\* an answer without rows
EmptyResult == <<>>

\* the answers with every column: a high reading anywhere, a low one in the
\* last row
CompleteResults ==
    UNION {{Result(n, hi, lo, 0) :
                hi \in {NoCell} \cup ((1..Len(variables)) \X (1..n)),
                lo \in {NoCell} \cup ((1..Len(variables)) \X {n})}
           : n \in 1..MaxRows}

\* the answers where one field has no point in the range, so that pivot()
\* yields no column for it
PartialResults ==
    {Result(n, NoCell, NoCell, m) : n \in 1..MaxRows, m \in 1..Len(variables)}

Results == {EmptyResult} \cup CompleteResults \cup PartialResults

\* ------------------------------------------------------------------------
\* The script
\* ------------------------------------------------------------------------
VARIABLES
    pc,            \* the section of the script that runs next
    query_api,     \* whether the name query_api is bound
    tables,        \* the answer of query_data_frame
    df,            \* the table under analysis; <<>> while the name is unbound
    exc,           \* the exception raised, "" if none
    out,           \* the st.* calls made so far, in order
    shown,         \* the table handed to st.dataframe
    metricas,      \* the arguments of the cols[i].metric calls
    anomalias,     \* the list of anomaly records
    tabla,         \* the list handed to st.table
    predicciones,  \* the list of (var, futuro)
    escritas,      \* the predictions written, as (var, hundredths)
    pos              \* position in the loop over variables

VARIABLES y, anomalo, fase

scriptvars == <<pc, query_api, tables, df, exc, out, shown, metricas,
                anomalias, tabla, predicciones, escritas, pos>>

colvars == <<y, anomalo, fase>>

vars == <<scriptvars, colvars>>

NumVars == Len(variables)

ScriptInit ==
    /\ pc = "connect"
    /\ query_api = FALSE
    /\ tables = <<>>
    /\ df = <<>>
    /\ exc = ""
    /\ out = <<"title", "write: intro">>
    /\ shown = <<>>
    /\ metricas = <<>>
    /\ anomalias = <<>>
    /\ tabla = <<>>
    /\ predicciones = <<>>
    /\ escritas = <<>>
    /\ pos = 1

\* lines 28-31: the client is built and its query API obtained
ConnectOk ==
    /\ pc = "connect"
    /\ query_api' = TRUE
    /\ out' = Append(out, "success: conexion")
    /\ pc' = "query"
    /\ UNCHANGED <<tables, df, exc, shown, metricas, anomalias, tabla,
                   predicciones, escritas, pos, colvars>>

\* lines 28-33: InfluxDBClient(...) or client.query_api() raises; the name
\* query_api stays unbound
ConnectError ==
    /\ pc = "connect"
    /\ query_api' = FALSE
    /\ out' = Append(out, "error: conexion")
    /\ pc' = "query"
    /\ UNCHANGED <<tables, df, exc, shown, metricas, anomalias, tabla,
                   predicciones, escritas, pos, colvars>>

\* the handler without st.stop(), going on with the sample data
QueryExceptFallsBack(e) ==
    /\ exc' = e
    /\ out' = Append(out, "error: consulta")
    /\ df' = Fallback
    /\ tables' = tables
    /\ pc' = "show"

\* lines 64-66: except Exception: st.error(...); st.stop()
QueryExcept(e) ==
    /\ exc' = e
    /\ out' = Append(out, "error: consulta")
    /\ pc' = "stopped"
    /\ UNCHANGED <<tables, df>>

\* line 48 with query_api unbound: NameError, inside the try block
QueryNameError ==
    /\ pc = "query"
    /\ ~query_api
    /\ QueryExcept("NameError")
    /\ UNCHANGED <<query_api, shown, metricas, anomalias, tabla,
                   predicciones, escritas, pos, colvars>>

\* line 48: query_data_frame raises
QueryRaises ==
    /\ pc = "query"
    /\ query_api
    /\ QueryExcept("QueryError")
    /\ UNCHANGED <<query_api, shown, metricas, anomalias, tabla,
                   predicciones, escritas, pos, colvars>>

\* len(tables) <= 1 in the place of len(tables) == 0
SinDatosOffByOne(t) == NRows(t) <= 1

\* line 49: len(tables) == 0
SinDatos(t) == NRows(t) = 0

\* lines 48-63: the query answers
QueryAnswers ==
    /\ pc = "query"
    /\ query_api
    /\ \E result \in Results :
          /\ tables' = result
          /\ IF SinDatos(result)
             THEN /\ out' = Append(out, "warning: sin datos")
                  /\ df' = Fallback
             ELSE /\ out' = out
                  /\ df' = result
    /\ pc' = "show"
    /\ UNCHANGED <<query_api, exc, shown, metricas, anomalias, tabla,
                   predicciones, escritas, pos, colvars>>

\* the table shown and the statistics loop left out
ShowDataSkipsStats ==
    /\ pc = "show"
    /\ df' = Rename(df, "_time", "Tiempo")
    /\ shown' = df'
    /\ out' = out \o <<"subheader: datos", "dataframe", "subheader: anomalias">>
    /\ pos' = 1
    /\ pc' = "anomaly"
    /\ UNCHANGED <<query_api, tables, exc, metricas, anomalias, tabla,
                   predicciones, escritas, colvars>>

\* lines 68-78: rename, show the table, open the statistics section
ShowData ==
    /\ pc = "show"
    /\ df' = Rename(df, "_time", "Tiempo")
    /\ shown' = df'
    /\ out' = out \o <<"subheader: datos", "dataframe",
                       "subheader: estadisticas", "columns">>
    /\ pos' = 1
    /\ pc' = "stats"
    /\ UNCHANGED <<query_api, tables, exc, metricas, anomalias, tabla,
                   predicciones, escritas, colvars>>

\* lines 79-83, one variable; after the last one lines 88-89
StatsVar ==
    /\ pc = "stats"
    /\ HasCol(df, variables[pos])
    /\ LET var == variables[pos]
           col == Col(df, var)
       IN  metricas' = Append(metricas,
                [var     |-> var,
                 prom    |-> Fmt2(Media(col)),
                 minimo  |-> Fmt2(<<MinTo(col, Len(col)), 1>>),
                 maximo  |-> Fmt2(<<MaxTo(col, Len(col)), 1>>)])
    /\ IF pos = NumVars
       THEN /\ out' = out \o <<"metric", "subheader: anomalias">>
            /\ anomalias' = <<>>
            /\ pos' = 1
            /\ pc' = "anomaly"
       ELSE /\ out' = Append(out, "metric")
            /\ pos' = pos + 1
            /\ UNCHANGED <<anomalias, pc>>
    /\ UNCHANGED <<query_api, tables, df, exc, shown, tabla, predicciones,
                   escritas, colvars>>

\* line 80 on a table without the column: KeyError, caught by nobody; the
\* run ends with the exception on the page
StatsKeyError ==
    /\ pc = "stats"
    /\ ~HasCol(df, variables[pos])
    /\ exc' = "KeyError"
    /\ out' = Append(out, "exception")
    /\ pc' = "crashed"
    /\ UNCHANGED <<query_api, tables, df, shown, metricas, anomalias, tabla,
                   predicciones, escritas, pos, colvars>>

\* the records with the value of the first row in the place of the row's own
RegistrosFirstRow(t, var) ==
    LET flagged == SelectSeq([r \in 1..NRows(t) |-> r],
                             LAMBDA r : Col(t, AnomaloName(var))[r])
    IN  [k \in 1..Len(flagged) |->
            [Fecha       |-> Col(t, "Tiempo")[flagged[k]],
             Variable    |-> var,
             Valor       |-> Col(t, var)[1],
             Descripcion |-> "Valor fuera de rango normal"]]

\* lines 98-105: one record per row of filas_anom, in row order
Registros(t, var) ==
    LET flagged == SelectSeq([r \in 1..NRows(t) |-> r],
                             LAMBDA r : Col(t, AnomaloName(var))[r])
    IN  [k \in 1..Len(flagged) |->
            [Fecha       |-> Col(t, "Tiempo")[flagged[k]],
             Variable    |-> var,
             Valor       |-> Col(t, var)[flagged[k]],
             Descripcion |-> "Valor fuera de rango normal"]]

\* lines 90-105, one variable
AnomalyVar ==
    /\ pc = "anomaly"
    /\ LET var == variables[pos]
       IN  /\ df' = SetCol(df, AnomaloName(var), Anomalo(Col(df, var)))
           /\ anomalias' = anomalias \o Registros(df', var)
    /\ IF pos = NumVars
       THEN /\ pos' = 1
            /\ pc' = "report"
       ELSE /\ pos' = pos + 1
            /\ pc' = pc
    /\ UNCHANGED <<query_api, tables, exc, out, shown, metricas, tabla,
                   predicciones, escritas, colvars>>

\* lines 107-118: the outcome of the check, then the prediction section opens
Report ==
    /\ pc = "report"
    /\ IF anomalias # <<>>
       THEN /\ out' = out \o <<"error: anomalias", "table",
                               "subheader: prediccion">>
            /\ tabla' = anomalias
       ELSE /\ out' = out \o <<"success: sin anomalias",
                               "subheader: prediccion">>
            /\ tabla' = tabla
    /\ predicciones' = <<>>
    /\ pos' = 1
    /\ pc' = "regress"
    /\ UNCHANGED <<query_api, tables, df, exc, shown, metricas, anomalias,
                   escritas, colvars>>

\* lines 119-125, one variable; after the last one line 127
RegressVar ==
    /\ pc = "regress"
    /\ LET var == variables[pos]
       IN  predicciones' = Append(predicciones, <<var, Futuro(Col(df, var))>>)
    /\ IF pos = NumVars
       THEN /\ out' = Append(out, "write: predicciones")
            /\ pos' = 1
            /\ pc' = "render"
       ELSE /\ pos' = pos + 1
            /\ UNCHANGED <<out, pc>>
    /\ UNCHANGED <<query_api, tables, df, exc, shown, metricas, anomalias,
                   tabla, escritas, colvars>>

\* lines 128-129, one prediction; after the last one lines 134-135
RenderVar ==
    /\ pc = "render"
    /\ escritas' = Append(escritas,
                      <<predicciones[pos][1], Fmt2(predicciones[pos][2])>>)
    /\ IF pos = NumVars
       THEN /\ out' = out \o <<"write: prediccion", "markdown", "caption">>
            /\ pc' = "done"
            /\ pos' = pos
       ELSE /\ out' = Append(out, "write: prediccion")
            /\ pos' = pos + 1
            /\ pc' = pc
    /\ UNCHANGED <<query_api, tables, df, exc, shown, metricas, anomalias,
                   tabla, predicciones, colvars>>

Init ==
    /\ ScriptInit
    /\ y = <<>>
    /\ anomalo = <<>>
    /\ fase = "fuera"

Next ==
    \/ ConnectOk
    \/ ConnectError
    \/ QueryNameError
    \/ QueryRaises
    \/ QueryAnswers
    \/ ShowData
    \/ StatsVar
    \/ StatsKeyError
    \/ AnomalyVar
    \/ Report
    \/ RegressVar
    \/ RenderVar

Spec == Init /\ [][Next]_vars

\* ------------------------------------------------------------------------
\* Properties of a run of the script
\* ------------------------------------------------------------------------
Count(kind) == Cardinality({k \in 1..Len(out) : out[k] = kind})

Has(kind) == \E k \in 1..Len(out) : out[k] = kind

VarSet == {variables[k] : k \in 1..NumVars}

VarIdx(var) == CHOOSE k \in 1..NumVars : variables[k] = var

TimeCol(t) == IF HasCol(t, "Tiempo") THEN Col(t, "Tiempo") ELSE Col(t, "_time")

\* t and u have the same rows: same timestamps and same reading columns
SameReadings(t, u) ==
    /\ Len(t) > 0
    /\ Len(u) > 0
    /\ TimeCol(t) = TimeCol(u)
    /\ \A var \in VarSet :
          /\ HasCol(t, var) <=> HasCol(u, var)
          /\ HasCol(t, var) => Col(t, var) = Col(u, var)

\* the query completed without raising
QueryAnswered == pc \notin {"connect", "query", "stopped"}

\* the dataset the run is to work on, given the answer of the query
Source == IF NRows(tables) = 0 THEN Fallback ELSE tables

StatsOf(col) ==
    [prom   |-> Fmt2(<<Total(col), Len(col)>>),
     minimo |-> Fmt2(<<MinTo(col, Len(col)), 1>>),
     maximo |-> Fmt2(<<MaxTo(col, Len(col)), 1>>)]

\* every stage that has acted did so on the table src
StagesOperateOn(src) ==
    /\ SameReadings(df, src)
    /\ Has("dataframe") => SameReadings(shown, src)
    /\ \A k \in 1..Len(metricas) :
          /\ metricas[k].var = variables[k]
          /\ metricas[k].prom = StatsOf(Col(src, variables[k])).prom
          /\ metricas[k].minimo = StatsOf(Col(src, variables[k])).minimo
          /\ metricas[k].maximo = StatsOf(Col(src, variables[k])).maximo
    /\ \A var \in VarSet :
          HasCol(df, AnomaloName(var)) =>
              Col(df, AnomaloName(var)) = Anomalo(Col(src, var))
    /\ \A k \in 1..Len(predicciones) :
          predicciones[k] = <<variables[k], Futuro(Col(src, variables[k]))>>

\* C1: when the query answers with zero rows the warning is shown and every
\* later stage works on the sample data; when it answers with at least one
\* row there is no warning and every later stage works on the answer.
C1_FallbackIffNoRows ==
    QueryAnswered =>
        /\ (NRows(tables) = 0) <=> Has("warning: sin datos")
        /\ NRows(tables) = 0 => StagesOperateOn(Fallback)
        /\ NRows(tables) >= 1 => StagesOperateOn(tables)

\* a run on the sample data that reached the end
C1_Witness ==
    /\ pc = "done"
    /\ NRows(tables) = 0
    /\ Has("warning: sin datos")
    /\ SameReadings(df, Fallback)

Halted == pc \in {"stopped", "crashed"}

OutcomeShown == Has("error: anomalias") \/ Has("success: sin anomalias")

\* C3: after a failed connection the run goes on with the sample data and
\* renders the table, the statistics, the anomaly result and the predictions.
C3_ConnectionFailureUsesFallback ==
    (Has("error: conexion") /\ (pc = "done" \/ Halted)) =>
        /\ pc = "done"
        /\ SameReadings(df, Fallback)
        /\ Has("dataframe")
        /\ Count("metric") = NumVars
        /\ OutcomeShown
        /\ Count("write: prediccion") = NumVars

\* C4: when the query raises, one query-error message is shown and the run
\* stops there: no table, statistics, anomaly result or prediction, and the
\* sample data is not used.
C4_QueryErrorHalts ==
    exc \in {"NameError", "QueryError"} =>
        /\ Count("error: consulta") = 1
        /\ pc = "stopped"
        /\ ~Has("dataframe")
        /\ ~Has("metric")
        /\ ~OutcomeShown
        /\ ~Has("table")
        /\ ~Has("write: prediccion")
        /\ ~Has("warning: sin datos")
        /\ Len(df) = 0
        /\ Len(shown) = 0
        /\ Len(metricas) = 0
        /\ Len(anomalias) = 0
        /\ Len(predicciones) = 0
        /\ Len(escritas) = 0

\* the database raised on the query of a connected client
C4_Witness ==
    /\ exc = "QueryError"
    /\ query_api
    /\ pc = "stopped"
    /\ Has("error: consulta")

\* C5: each prediction is the fitted line of the variable's own column at
\* the next row index, len(df).
C5_PredictsNextIndex ==
    /\ \A k \in 1..Len(predicciones) :
          predicciones[k] =
              <<variables[k], LineAt(Col(df, variables[k]), NRows(df))>>
    /\ \A k \in 1..Len(escritas) :
          escritas[k] =
              <<variables[k], Fmt2(LineAt(Col(df, variables[k]), NRows(df)))>>

\* the stage an st.* call belongs to
Rank(kind) ==
    CASE kind \in {"title", "write: intro", "success: conexion",
                   "error: conexion"} -> 0
      [] kind \in {"warning: sin datos", "error: consulta"} -> 1
      [] kind \in {"subheader: datos", "dataframe"} -> 2
      [] kind \in {"subheader: estadisticas", "columns", "metric"} -> 3
      [] kind \in {"subheader: anomalias", "error: anomalias", "table",
                   "success: sin anomalias"} -> 4
      [] kind \in {"subheader: prediccion"} -> 5
      [] kind \in {"write: predicciones", "write: prediccion"} -> 6
      [] kind \in {"markdown", "caption", "exception"} -> 7

FlagCols == {k \in 1..Len(df) : \E var \in VarSet : df[k].name = AnomaloName(var)}

\* C6: fetch, display, statistics, anomaly check, regression and rendering
\* happen in that order, none starting before the previous one is finished;
\* a run that ends without error has done each exactly once, and a run that
\* halts does nothing of the stages after the one it halted in.
C6_StagesInOrder ==
    /\ \A p \in 1..(Len(out) - 1) : Rank(out[p]) <= Rank(out[p + 1])
    /\ Has("dataframe") => Len(df) > 0
    /\ Count("dataframe") <= 1
    /\ Count("metric") = Len(metricas)
    /\ Has("metric") => Has("dataframe")
    /\ FlagCols # {} => Count("metric") = NumVars
    /\ OutcomeShown => Cardinality(FlagCols) = NumVars
    /\ Count("error: anomalias") + Count("success: sin anomalias") <= 1
    /\ Len(predicciones) > 0 => OutcomeShown
    /\ Count("write: prediccion") = Len(escritas)
    /\ Has("write: prediccion") => Len(predicciones) = NumVars
    /\ pc = "done" =>
          /\ exc = ""
          /\ QueryAnswered
          /\ Count("dataframe") = 1
          /\ Count("metric") = NumVars
          /\ Count("error: anomalias") + Count("success: sin anomalias") = 1
          /\ Len(predicciones) = NumVars
          /\ Count("write: prediccion") = NumVars
    /\ exc # "" <=> Halted
    /\ pc = "stopped" => ~Has("dataframe") /\ Len(metricas) = 0
    /\ Halted =>
          /\ FlagCols = {}
          /\ ~OutcomeShown
          /\ Len(predicciones) = 0
          /\ Len(escritas) = 0

\* a complete run that reported anomalies
C6_Witness ==
    /\ pc = "done"
    /\ Has("error: anomalias")
    /\ Count("write: prediccion") = NumVars

AnomalyStarted == pc \in {"anomaly", "report", "regress", "render", "done"}

AnomalyDone == pc \in {"report", "regress", "render", "done"}

\* C7: after the anomaly stage the table has one boolean column per variable,
\* five in all, and the stage leaves rows, timestamps and readings as fetched.
C7_AnomalyStageFrame ==
    /\ AnomalyStarted =>
          /\ SameReadings(df, Source)
          /\ NRows(df) = NRows(Source)
          /\ \A k \in 1..Len(predicciones) :
                predicciones[k][2] = Futuro(Col(Source, variables[k]))
    /\ AnomalyDone =>
          /\ Cardinality(FlagCols) = NumVars
          /\ Len(df) = 1 + 2 * NumVars
          /\ \A var \in VarSet :
                /\ Cardinality({k \in 1..Len(df) :
                                   df[k].name = AnomaloName(var)}) = 1
                /\ Len(Col(df, AnomaloName(var))) = NRows(df)
                /\ \A r \in 1..NRows(df) :
                      Col(df, AnomaloName(var))[r] \in BOOLEAN
                /\ Col(df, AnomaloName(var)) = Anomalo(Col(Source, var))

\* the anomaly stage is over and set a flag
C7_Witness ==
    /\ pc = "regress"
    /\ \E var \in VarSet : \E r \in 1..NRows(df) : Col(df, AnomaloName(var))[r]

Flagged(var, r) == Col(df, AnomaloName(var))[r]

\* C8: once the anomaly stage is over exactly one outcome is shown; the error
\* with its table if and only if some (row, variable) is flagged, and the
\* table has one entry per flagged pair, with the row's timestamp and value,
\* by variable in the fixed order and by row within a variable.
C8_OutcomeMatchesFlags ==
    pc \in {"regress", "render", "done"} =>
        /\ Count("error: anomalias") + Count("success: sin anomalias") = 1
        /\ Has("error: anomalias") <=>
              \E var \in VarSet : \E r \in 1..NRows(df) : Flagged(var, r)
        /\ Count("table") = Count("error: anomalias")
        /\ ~Has("error: anomalias") => Len(tabla) = 0
        /\ \A k \in 1..Len(tabla) :
              \E r \in 1..NRows(df) :
                  /\ Flagged(tabla[k].Variable, r)
                  /\ tabla[k].Fecha = Col(df, "Tiempo")[r]
                  /\ tabla[k].Valor = Col(df, tabla[k].Variable)[r]
        /\ \A var \in VarSet : \A r \in 1..NRows(df) :
              Flagged(var, r) =>
                  Cardinality({k \in 1..Len(tabla) :
                                  /\ tabla[k].Variable = var
                                  /\ tabla[k].Fecha = Col(df, "Tiempo")[r]}) = 1
        /\ \A p, q \in 1..Len(tabla) :
              p < q =>
                  \/ VarIdx(tabla[p].Variable) < VarIdx(tabla[q].Variable)
                  \/ /\ tabla[p].Variable = tabla[q].Variable
                     /\ tabla[p].Fecha < tabla[q].Fecha

\* two flagged readings of one variable, and the table shown
C8_Witness ==
    /\ pc = "done"
    /\ Has("table")
    /\ Len(tabla) = 2
    /\ tabla[1].Variable = tabla[2].Variable
    /\ tabla[1].Valor # tabla[2].Valor

\* flagged readings of two variables, the later row listed first
TwoVariablesFlagged ==
    /\ pc = "done"
    /\ Len(tabla) = 2
    /\ tabla[1].Variable # tabla[2].Variable
    /\ tabla[1].Fecha > tabla[2].Fecha

\* C9: on the sample data no reading is flagged, so the run shows the
\* no-anomalies message and never the anomaly table.
C9_FallbackHasNoAnomaly ==
    (QueryAnswered /\ NRows(tables) = 0) =>
        /\ \A var \in VarSet :
              HasCol(df, AnomaloName(var)) =>
                  \A r \in 1..NRows(df) : ~Flagged(var, r)
        /\ Len(anomalias) = 0
        /\ ~Has("error: anomalias")
        /\ ~Has("table")
        /\ pc \in {"regress", "render", "done"} => Has("success: sin anomalias")

\* the sample data went through the anomaly stage and its report
C9_Witness ==
    /\ NRows(tables) = 0
    /\ SameReadings(df, Fallback)
    /\ pc = "regress"
    /\ Has("success: sin anomalias")

\* ------------------------------------------------------------------------
\* One column through the anomaly rule
\* ------------------------------------------------------------------------
RECURSIVE Sorted(_, _)
\* the nondecreasing columns of n rows with readings lo..MaxVal
Sorted(n, lo) ==
    IF n = 0 THEN {<<>>}
    ELSE UNION {{<<v>> \o s : s \in Sorted(n - 1, v)} : v \in lo..MaxVal}

\* The columns the rule is applied to: every column of up to MaxLen rows,
\* and the longer ones up to MaxSortedLen rows in nondecreasing order (mean
\* and std do not depend on the order of the rows).
Columns ==
    UNION ({[1..n -> 0..MaxVal] : n \in 1..MaxLen}
           \cup {Sorted(n, 0) : n \in (MaxLen + 1)..MaxSortedLen})

ColInit ==
    /\ ScriptInit
    /\ y \in Columns
    /\ anomalo = [i \in 1..Len(y) |-> FALSE]
    /\ fase = "leida"

ColAnomalo ==
    /\ fase = "leida"
    /\ anomalo' = Anomalo(y)
    /\ fase' = "marcada"
    /\ UNCHANGED <<y, scriptvars>>

ColNext == ColAnomalo

SpecCol == ColInit /\ [][ColNext]_vars

\* ------------------------------------------------------------------------
\* The anomaly rule as the glossary states it
\* ------------------------------------------------------------------------
SumSquares(col) == SumTo([i \in 1..Len(col) |-> col[i] * col[i]], Len(col))

\* n*n*(n-1) * (|col[i] - mean|^2 - 4 * variance), with the sample variance
\* (n*SumSquares - Total^2) / (n*(n-1)): positive, zero or negative as
\* |col[i] - mean| is above, at or below 2*stddev
Excess(col, i) ==
    LET n == Len(col)
        S == Total(col)
        a == Abs(n * col[i] - S)
    IN  (n - 1) * a * a - 4 * n * (n * SumSquares(col) - S * S)

\* C2: a row is flagged if and only if |value - mean| > 2*stddev, with the
\* mean and the sample stddev of its own column; a value exactly at
\* mean +/- 2*stddev is not flagged.
C2_FlagIffOutside ==
    fase = "marcada" =>
        \A i \in 1..Len(y) :
            /\ anomalo[i] <=> (Len(y) >= 2 /\ Excess(y, i) > 0)
            /\ (Excess(y, i) = 0) => ~anomalo[i]

\* a column with a spread whose row 7 sits exactly at mean + 2*stddev
C2_Witness ==
    /\ fase = "marcada"
    /\ \E i \in 1..Len(y) :
          /\ Excess(y, i) = 0
          /\ y[i] * Len(y) # Total(y)
          /\ ~anomalo[i]

\* C10: a column of 1 to 5 rows never has a flagged row, whatever its
\* values; a flagged row needs 6 or more rows.
C10_NoFlagUpToFiveRows ==
    fase = "marcada" =>
        /\ Len(y) <= 5 => \A i \in 1..Len(y) : ~anomalo[i]
        /\ (\E i \in 1..Len(y) : anomalo[i]) => Len(y) >= 6

\* five rows with a lone extreme reading, not flagged
C10_Witness ==
    /\ fase = "marcada"
    /\ Len(y) = 5
    /\ \E i \in 1..5 :
          /\ y[i] = MaxVal
          /\ \A j \in (1..5) \ {i} : y[j] = 0
          /\ ~anomalo[i]

\* six rows with a lone extreme reading, flagged
SixRowsFlagged ==
    /\ fase = "marcada"
    /\ Len(y) = 6
    /\ \E i \in 1..6 : anomalo[i]

====
